---- MODULE Spec2Model ----
(***************************************************************************)
(* Model of civitai_lora_loader.py: the CivitAI_Model class (catalog       *)
(* resolution in details(), the cache-aware download(), and the            *)
(* download_history.json store behind dump_file_details() and              *)
(* lora_cached_name()), and the CivitAI_LORA_Loader node's load_lora().    *)
(*                                                                         *)
(* Python values are represented as follows.                               *)
(*   None (version)       NoVersion (0; catalog and request ids are > 0)   *)
(*   None (name)          NoName                                           *)
(*   None (download_url)  NoUrl, the empty sequence                        *)
(*   None (file_details)  NoDetails; json null in the history document     *)
(*   a URL                the sequence url.split('/') produces             *)
(*   a files list that is missing from a version: the empty sequence       *)
(*   (version.get('files') and latest_version.get('files', {}) are both    *)
(*   falsy then, exactly as for an empty list)                             *)
(***************************************************************************)
EXTENDS Integers, Sequences, FiniteSets, TLC

VARIABLES
    self,          \* the CivitAI_Model object of the fetch in progress
    req_version,   \* the version argument the object was constructed with
    response,      \* the catalog response details() received
    pc,            \* position of the fetch: idle, constructing, resolved, aborted, done
    call,          \* what the last details()/download() call did and returned
    history_file,  \* download_history.json: whether it exists, and its document
    disk,          \* the LORA_PATH directory: file name -> absent / complete / partial
    second,        \* this fetch repeats the previous, successful one with nothing in between
    node           \* the CivitAI_LORA_Loader node: its last load_lora call and what came of it

vars == <<self, req_version, response, pc, call, history_file, disk, second, node>>

----------------------------------------------------------------------------
(* Bounds of the model *)

\* versions in one catalog record
MaxVersions == 2
\* files in one catalog record, over all its versions
MaxFiles == 2
\* entries in the history document, over all its keys
MaxHist == 2

----------------------------------------------------------------------------
(* Values *)

NoVersion == 0
NoName == "<None>"
NoUrl == << >>
NoDetails == [id |-> 0, name |-> NoName, downloadUrl |-> NoUrl]

ModelIds == {1000, 1001}
VersionIds == {1, 2}

UrlA == <<"http:", "", "x", "a">>
UrlB == <<"http:", "", "x", "b">>

\* file entries a catalog may list: two files that share id 1 under different
\* names, and a file the catalog lists with an empty name
FileA == [id |-> 1, name |-> "a", downloadUrl |-> UrlA]
FileB == [id |-> 1, name |-> "b", downloadUrl |-> UrlB]
FileN == [id |-> 2, name |-> "", downloadUrl |-> UrlB]
Files == {FileA, FileB, FileN}

DiskNames == {"a", "b"}

SeqsUpTo(S, n) == UNION {[1..k -> S] : k \in 0..n}

RECURSIVE SumLen(_, _)
SumLen(vs, i) == IF i > Len(vs) THEN 0 ELSE Len(vs[i].files) + SumLen(vs, i + 1)

VersionRecs == [id : VersionIds, files : SeqsUpTo(Files, MaxFiles)]

VersionLists == {vs \in SeqsUpTo(VersionRecs, MaxVersions) : SumLen(vs, 1) <= MaxFiles}

ModelTypes == {"LORA", "Checkpoint"}

\* status codes other than 200 that the catalog may answer with (no body is read)
OtherStatus == {304, 404, 500}

NoResponse == [status_code |-> 0, type |-> "", modelVersions |-> << >>]

Responses ==
    [status_code : {200}, type : ModelTypes, modelVersions : VersionLists]
    \cup [status_code : OtherStatus, type : {""}, modelVersions : {<< >>}]

NoObject == [model_id |-> 0, version |-> NoVersion, name |-> NoName,
             download_url |-> NoUrl, file_details |-> NoDetails]

NoCall == [ret |-> "", err |-> "", file |-> NoDetails, gets |-> 0, heads |-> 0,
           path |-> "", status |-> 0]

----------------------------------------------------------------------------
(* CivitAI_Model.__init__ and CivitAI_Model.details *)

\* __init__, lines 30-34
init_object(model_id, version) ==
    [model_id |-> model_id, version |-> version, name |-> NoName,
     download_url |-> NoUrl, file_details |-> NoDetails]

\* `not self.version`
version_absent(version) == version = NoVersion

is_lora_any(model_type) == TRUE

\* the negation of the test at line 48
is_lora(model_type) == model_type = "LORA"

\* requests' Response.raise_for_status: raises for 4xx and 5xx only
raise_for_status(status_code) == status_code >= 400 /\ status_code < 600

\* max(model_versions, key=lambda x: x['id']): the first element carrying the
\* greatest id (a later element replaces the best only when strictly greater)
RECURSIVE max_from(_, _, _)
max_from(vs, i, best) ==
    IF i > Len(vs) THEN best
    ELSE max_from(vs, i + 1, IF vs[i].id > vs[best].id THEN i ELSE best)

max_version_last(model_versions) ==
    model_versions[CHOOSE i \in 1..Len(model_versions) :
                      \A j \in 1..Len(model_versions) : j <= i]

max_version(model_versions) == model_versions[max_from(model_versions, 2, 1)]

\* the inner loop, lines 61-66: the first file of the list whose id is the version
RECURSIVE file_scan(_, _, _)
file_scan(version_files, version, i) ==
    IF i > Len(version_files) THEN NoDetails
    ELSE IF version_files[i].id = version THEN version_files[i]
    ELSE file_scan(version_files, version, i + 1)

\* the outer loop, lines 58-66
RECURSIVE version_scan_from(_, _, _)
version_scan_from(model_versions, version, i) ==
    IF i > Len(model_versions) THEN NoDetails
    ELSE LET hit == IF model_versions[i].files # << >>
                    THEN file_scan(model_versions[i].files, version, 1)
                    ELSE NoDetails
         IN IF hit # NoDetails THEN hit
            ELSE version_scan_from(model_versions, version, i + 1)

RECURSIVE version_scan_last(_, _)
version_scan_last(model_versions, version) ==
    IF model_versions = << >> THEN NoDetails
    ELSE LET n == Len(model_versions)
             fs == model_versions[n].files
             hits == {i \in 1..Len(fs) : fs[i].id = version}
         IN IF hits # {} THEN fs[CHOOSE i \in hits : \A j \in hits : j <= i]
            ELSE version_scan_last(SubSeq(model_versions, 1, n - 1), version)

version_scan(model_versions, version) == version_scan_from(model_versions, version, 1)

Raised(s, e) == [raised |-> TRUE, err |-> e, self |-> s, file |-> NoDetails]
Returned(s, f) == [raised |-> FALSE, err |-> "", self |-> s, file |-> f]

\* details(), lines 38-77: the object after the call, whether it raised, and
\* the file of the pair it returns (NoDetails when it returns None)
details(s, r) ==
    IF r.status_code = 200
    THEN IF ~is_lora(r.type) THEN Raised(s, "InvalidModelType")
         ELSE IF version_absent(s.version)
         THEN IF r.modelVersions = << >> THEN Raised(s, "ValueError")
              ELSE LET latest_version == max_version(r.modelVersions)
                       files == latest_version.files
                       s1 == [s EXCEPT !.version = latest_version.id]
                   IN IF files # << >>
                      THEN Returned([s1 EXCEPT !.name = files[1].name,
                                               !.download_url = files[1].downloadUrl],
                                    files[1])
                      ELSE Returned(s1, NoDetails)
         ELSE LET file == version_scan(r.modelVersions, s.version)
              IN IF file # NoDetails
                 THEN Returned([s EXCEPT !.name = file.name,
                                         !.download_url = file.downloadUrl,
                                         !.file_details = file],
                               file)
                 ELSE Raised(s, "VersionNotFound")
    ELSE IF raise_for_status(r.status_code) THEN Raised(s, "HTTPError")
         ELSE Returned(s, NoDetails)

----------------------------------------------------------------------------
(* The history store: dump_file_details and lora_cached_name *)

EmptyDoc == [k \in {} |-> << >>]
NoHistory == [exists |-> FALSE, data |-> EmptyDoc]

\* str(model_id), the key of the history document
str(model_id) == ToString(model_id)

Keys == {str(m) : m \in ModelIds}

dump_replacing(h, s) ==
    [exists |-> TRUE, data |-> (str(s.model_id) :> <<s.file_details>>) @@ h.data]

dump_prepending(h, s) ==
    LET key == str(s.model_id)
    IN [exists |-> TRUE,
        data |-> IF h.exists /\ key \in DOMAIN h.data
                 THEN [h.data EXCEPT ![key] = <<s.file_details>> \o @]
                 ELSE (key :> <<s.file_details>>) @@ h.data]

\* dump_file_details(), lines 127-142: the store file after the call
dump_file_details(h, s) ==
    LET key == str(s.model_id)
        download_history ==
            IF h.exists
            THEN IF key \in DOMAIN h.data
                 THEN [h.data EXCEPT ![key] = Append(@, s.file_details)]
                 ELSE (key :> <<s.file_details>>) @@ h.data
            ELSE (key :> <<s.file_details>>)
    IN [exists |-> TRUE, data |-> download_history]

Found(n) == [raised |-> FALSE, err |-> "", name |-> n]
LookupRaised(e) == [raised |-> TRUE, err |-> e, name |-> NoName]

\* the loop of lines 154-158; file.get('id') on a null entry raises
\* AttributeError, int(version_id) on None raises TypeError
RECURSIVE cached_scan(_, _, _)
cached_scan(file_details, version_id, i) ==
    IF i > Len(file_details) THEN Found(NoName)
    ELSE IF file_details[i] = NoDetails THEN LookupRaised("AttributeError")
    ELSE IF version_id = NoVersion THEN LookupRaised("TypeError")
    ELSE IF file_details[i].id = version_id THEN Found(file_details[i].name)
    ELSE cached_scan(file_details, version_id, i + 1)

\* lora_cached_name(), lines 144-160
lora_cached_name(h, model_id, version_id) ==
    IF h.exists /\ str(model_id) \in DOMAIN h.data
    THEN cached_scan(h.data[str(model_id)], version_id, 1)
    ELSE Found(NoName)

----------------------------------------------------------------------------
(* CivitAI_Model.download *)

\* Python truthiness of a name: None and '' are falsy
truthy(name) == name # NoName /\ name # ""

\* os.path.exists(os.path.join(LORA_PATH, name)); an interrupted download
\* leaves a partial file, which exists
path_exists(d, name) == name \in DOMAIN d /\ d[name] # "absent"

\* self.download_url.split('/')[-1]
url_tail(url) == url[Len(url)]

\* what the download endpoint may answer to the streaming GET: a status code,
\* and for a 200 whether the body arrives whole or the transport fails mid-stream
GetReplies == {[status_code |-> 200, complete |-> TRUE],
               [status_code |-> 200, complete |-> FALSE],
               [status_code |-> 404, complete |-> TRUE],
               [status_code |-> 500, complete |-> TRUE]}

Outcome(s, h, d, ret, err, gets, heads, path, status) ==
    [self |-> s, history_file |-> h, disk |-> d, ret |-> ret, err |-> err,
     gets |-> gets, heads |-> heads, path |-> path, status |-> status]

cache_hit_history_only(lora_name, d) == truthy(lora_name)

\* the test at line 82
cache_hit(lora_name, d) == truthy(lora_name) /\ path_exists(d, lora_name)

status_ok_any(status_code) == TRUE

\* the test at line 105: requests.codes.ok
status_ok(status_code) == status_code = 200

\* lines 95-125, once self.name is known
fetch_named(s, h, d, get, heads) ==
    IF path_exists(d, s.name)
    THEN Outcome(s, dump_file_details(h, s), d, "True", "", 0, heads, "exists", 0)
    ELSE IF status_ok(get.status_code)
    THEN IF get.complete
         THEN Outcome(s, dump_file_details(h, s), [d EXCEPT ![s.name] = "complete"],
                      "True", "", 1, heads, "downloaded", get.status_code)
         ELSE Outcome(s, h, [d EXCEPT ![s.name] = "partial"],
                      "raise", "ConnectionError", 1, heads, "interrupted",
                      get.status_code)
    ELSE Outcome(s, h, d, "False", "", 1, heads, "failed", get.status_code)

download_recording_hits(s, h, d, content_disposition, get) ==
    LET cached == lora_cached_name(h, s.model_id, s.version)
    IN IF cached.raised
       THEN Outcome(s, h, d, "raise", cached.err, 0, 0, "lookup", 0)
       ELSE IF cache_hit(cached.name, d)
       THEN Outcome([s EXCEPT !.name = cached.name], dump_file_details(h, s), d,
                    "True", "", 0, 0, "cache_hit", 0)
       ELSE IF ~truthy(s.name)
       THEN IF s.download_url = NoUrl
            THEN Outcome(s, h, d, "raise", "MissingSchema", 0, 0, "head", 0)
            ELSE IF content_disposition
            THEN Outcome(s, h, d, "raise", "NameError", 0, 1, "head", 0)
            ELSE fetch_named([s EXCEPT !.name = url_tail(s.download_url)],
                             h, d, get, 1)
       ELSE fetch_named(s, h, d, get, 0)

\* download(), lines 79-125.  content_disposition: whether the HEAD response
\* carries that header; line 91 then uses the module re, which is never
\* imported (lines 1-9), so evaluating it raises NameError
download(s, h, d, content_disposition, get) ==
    LET cached == lora_cached_name(h, s.model_id, s.version)
    IN IF cached.raised
       THEN Outcome(s, h, d, "raise", cached.err, 0, 0, "lookup", 0)
       ELSE IF cache_hit(cached.name, d)
       THEN Outcome([s EXCEPT !.name = cached.name], h, d, "True", "", 0, 0,
                    "cache_hit", 0)
       ELSE IF ~truthy(s.name)
       THEN IF s.download_url = NoUrl
            THEN Outcome(s, h, d, "raise", "MissingSchema", 0, 0, "head", 0)
            ELSE IF content_disposition
            THEN Outcome(s, h, d, "raise", "NameError", 0, 1, "head", 0)
            ELSE fetch_named([s EXCEPT !.name = url_tail(s.download_url)],
                             h, d, get, 1)
       ELSE fetch_named(s, h, d, get, 0)

----------------------------------------------------------------------------
(* CivitAI_LORA_Loader.load_lora *)

\* a MODEL or CLIP object of the graph, and what nodes.LoraLoader makes of it:
\* the object patched with a lora file at a strength (strengths in hundredths,
\* the step of the inputs at lines 181-182)
Unpatched(x) == [base |-> x, lora |-> NoName, strength |-> 0]
Patched(x, lora_name, strength) ==
    [base |-> x.base, lora |-> lora_name, strength |-> strength]

Models == {Unpatched("m1"), Unpatched("m2")}
Clips == {Unpatched("c1")}
StrengthPairs == {<<100, 100>>, <<50, -1000>>}

\* the lora_name choices of the node: 'none' in front of the files of the
\* loras directory (lines 172-173)
LoraNames == {"none"} \cup DiskNames

\* lora_slug values, as the segments lora_slug.split('@') produces; a slug
\* without '@' is one segment.  Every slug here starts with a non-empty id.
Slugs == {<<"1000", "1">>, <<"1000", "2">>, <<"1001", "1">>, <<"1000">>,
          <<"{model_id}", "{model_version}">>, <<"1000", "1", "2">>}

\* whether int(seg) succeeds, and its value
is_int(seg) == \E n \in ModelIds \cup VersionIds : ToString(n) = seg
int(seg) == CHOOSE n \in ModelIds \cup VersionIds : ToString(n) = seg

SlugRaised == [raised |-> TRUE, lora_id |-> 0, version_id |-> NoVersion]

\* lines 199-208.  Unpacking split('@') into two names raises ValueError when
\* the slug holds more than one '@'; int() raises ValueError on a segment that
\* is not a number; a missing or empty version segment stays falsy.
parse_slug(lora_slug) ==
    IF Len(lora_slug) > 2 THEN SlugRaised
    ELSE LET lora_id == lora_slug[1]
             version_id == IF Len(lora_slug) = 2 THEN lora_slug[2] ELSE ""
         IN IF ~is_int(lora_id) \/ (version_id # "" /\ ~is_int(version_id))
            THEN SlugRaised
            ELSE [raised |-> FALSE, lora_id |-> int(lora_id),
                  version_id |-> IF version_id = "" THEN NoVersion
                                 ELSE int(version_id)]

is_none_always(lora_name) == TRUE

\* the test at line 197
is_none(lora_name) == lora_name = "none"

pass_through_never(ret) == FALSE

\* the test at line 212: `not civitai_model.download()`
pass_through(ret) == ret = "False"

\* one call of the downstream loader, line 217
LoaderCall(model, clip, lora_name, strength_model, strength_clip) ==
    [model |-> model, clip |-> clip, lora_name |-> lora_name,
     strength_model |-> strength_model, strength_clip |-> strength_clip]

\* what self.lora_loader.load_lora returns for that call
LoaderOutput(c) ==
    <<Patched(c.model, c.lora_name, c.strength_model),
      Patched(c.clip, c.lora_name, c.strength_clip)>>

NoNode == [lora_loader |-> FALSE, model |-> Unpatched(""), clip |-> Unpatched(""),
           lora_slug |-> << >>, lora_name |-> "", strength_model |-> 0,
           strength_clip |-> 0, out |-> "", value |-> << >>, loads |-> << >>]

\* the outcome of one load_lora call: how it ended, what it returned, the
\* calls it made to the downstream loader, the CivitAI_Model object it built,
\* whether it requested the catalog, and the store and disk it leaves
Loaded(out, value, loads, s, version, requested, h, d, c) ==
    [out |-> out, value |-> value, loads |-> loads, self |-> s,
     req_version |-> version, requested |-> requested, history_file |-> h,
     disk |-> d, call |-> c]

\* lines 217-219
invoke_loader(model, clip, lora_name, strength_model, strength_clip, s, version, requested, h, d, c) ==
    LET lc == LoaderCall(model, clip, lora_name, strength_model, strength_clip)
    IN Loaded("return", LoaderOutput(lc), <<lc>>, s, version, requested, h, d, c)

\* load_lora(), lines 192-219.  h, d: the store and the disk at the call;
\* r, content_disposition, get: what the catalog, the HEAD probe and the
\* content GET would answer
load_lora(model, clip, lora_slug, lora_name, strength_model, strength_clip, h, d, r, content_disposition, get) ==
    IF is_none(lora_name)
    THEN LET slug == parse_slug(lora_slug)
         IN IF slug.raised
            THEN Loaded("raise", << >>, << >>, NoObject, NoVersion, FALSE, h, d,
                        [NoCall EXCEPT !.ret = "raise", !.err = "ValueError"])
            ELSE LET res == details(init_object(slug.lora_id, slug.version_id), r)
                 IN IF res.raised
                    THEN Loaded("raise", << >>, << >>, res.self, slug.version_id,
                                TRUE, h, d,
                                [NoCall EXCEPT !.ret = "raise", !.err = res.err])
                    ELSE LET o == download(res.self, h, d, content_disposition, get)
                             c == [ret |-> o.ret, err |-> o.err, file |-> res.file,
                                   gets |-> o.gets, heads |-> o.heads,
                                   path |-> o.path, status |-> o.status]
                         IN IF o.ret = "raise"
                            THEN Loaded("raise", << >>, << >>, o.self,
                                        slug.version_id, TRUE, o.history_file,
                                        o.disk, c)
                            ELSE IF pass_through(o.ret)
                            THEN Loaded("return", <<model, clip>>, << >>, o.self,
                                        slug.version_id, TRUE, o.history_file,
                                        o.disk, c)
                            ELSE invoke_loader(model, clip, o.self.name,
                                               strength_model, strength_clip,
                                               o.self, slug.version_id, TRUE,
                                               o.history_file, o.disk, c)
    ELSE invoke_loader(model, clip, lora_name, strength_model, strength_clip,
                       NoObject, NoVersion, FALSE, h, d, NoCall)

----------------------------------------------------------------------------
(* The fetch pipeline: CivitAI_Model(model_id, version) followed by download() *)

\* the versions a fetch may be asked for: none, or a version id
Requests == {NoVersion} \cup VersionIds

\* catalog responses of the pipeline: a LORA record of at most one version
\* holding at most one file (these produce every outcome details() has on a
\* LORA record), one record of another type, and the other status codes
FetchResponses ==
    {r \in Responses :
        /\ Len(r.modelVersions) <= 1
        /\ SumLen(r.modelVersions, 1) <= 1
        /\ (r.type # "LORA" => r.modelVersions = << >>)}

RECURSIVE HistSize(_, _)
HistSize(data, keys) ==
    IF keys = {} THEN 0
    ELSE LET k == CHOOSE x \in keys : TRUE
         IN Len(data[k]) + HistSize(data, keys \ {k})

Between == pc \in {"idle", "aborted", "done"}

Init ==
    /\ self = NoObject
    /\ req_version = NoVersion
    /\ response = NoResponse
    /\ pc = "idle"
    /\ call = NoCall
    /\ history_file = NoHistory
    /\ disk = [n \in DiskNames |-> "absent"]
    /\ second = FALSE
    /\ node = NoNode

\* the outcome of details() as the constructor leaves it
AfterDetails(res) ==
    /\ self' = res.self
    /\ pc' = IF res.raised THEN "aborted" ELSE "resolved"
    /\ call' = [NoCall EXCEPT !.ret = IF res.raised THEN "raise" ELSE "ok",
                              !.err = res.err, !.file = res.file]

\* CivitAI_Model(model_id, version): __init__, lines 28-36, which calls details()
Construct(model_id, version, r) ==
    /\ Between
    /\ AfterDetails(details(init_object(model_id, version), r))
    /\ req_version' = version
    /\ response' = r
    /\ second' = (/\ pc = "done" /\ call.ret = "True" /\ call.gets = 1
                  /\ model_id = self.model_id /\ version = req_version
                  /\ r = response)
    /\ UNCHANGED <<history_file, disk, node>>

\* civitai_model.download(), lines 79-125; the step is taken while the history
\* document stays within MaxHist entries
Download(content_disposition, get) ==
    /\ pc = "resolved"
    /\ LET o == download(self, history_file, disk, content_disposition, get)
       IN /\ HistSize(o.history_file.data, DOMAIN o.history_file.data) <= MaxHist
          /\ self' = o.self
          /\ history_file' = o.history_file
          /\ disk' = o.disk
          /\ call' = [call EXCEPT !.ret = o.ret, !.err = o.err, !.gets = o.gets,
                                  !.heads = o.heads, !.path = o.path,
                                  !.status = o.status]
    /\ pc' = "done"
    /\ UNCHANGED <<req_version, response, second, node>>

Forget ==
    /\ self' = NoObject
    /\ req_version' = NoVersion
    /\ response' = NoResponse
    /\ pc' = "idle"
    /\ call' = NoCall
    /\ second' = FALSE

\* between two fetches the user removes a file from the loras directory
UserRemoves(name) ==
    /\ Between
    /\ disk[name] # "absent"
    /\ disk' = [disk EXCEPT ![name] = "absent"]
    /\ Forget
    /\ UNCHANGED <<history_file, node>>

\* between two fetches the user puts a file into the loras directory
UserPlaces(name) ==
    /\ Between
    /\ disk[name] = "absent"
    /\ disk' = [disk EXCEPT ![name] = "complete"]
    /\ Forget
    /\ UNCHANGED <<history_file, node>>

Next ==
    \/ \E m \in ModelIds, v \in Requests, r \in FetchResponses : Construct(m, v, r)
    \/ \E cd \in BOOLEAN, get \in GetReplies : Download(cd, get)
    \/ \E n \in DiskNames : UserRemoves(n)
    \/ \E n \in DiskNames : UserPlaces(n)

Spec == Init /\ [][Next]_vars

----------------------------------------------------------------------------
(* Resolution alone: details() applied to every catalog response of the bounds *)

InitResolve ==
    /\ \E m \in ModelIds, v \in Requests :
          /\ self = init_object(m, v)
          /\ req_version = v
    /\ response \in Responses
    /\ pc = "constructing"
    /\ call = NoCall
    /\ history_file = NoHistory
    /\ disk = [n \in DiskNames |-> "absent"]
    /\ second = FALSE
    /\ node = NoNode

\* self.details(), line 36
Resolve ==
    /\ pc = "constructing"
    /\ AfterDetails(details(self, response))
    /\ UNCHANGED <<req_version, response, history_file, disk, second, node>>

NextResolve == Resolve

SpecResolve == InitResolve /\ [][NextResolve]_vars

----------------------------------------------------------------------------
(* The node: one load_lora call in a context earlier fetches have left *)

\* history documents earlier fetches leave: none, one record, the null entry
\* a latest-version fetch appends, and two records that share an id
LoadStores ==
    {NoHistory,
     [exists |-> TRUE, data |-> (str(1000) :> <<FileA>>)],
     [exists |-> TRUE, data |-> (str(1000) :> <<NoDetails>>)],
     [exists |-> TRUE, data |-> (str(1000) :> <<FileB, FileA>>)]}

InitLoad ==
    /\ self = NoObject
    /\ req_version = NoVersion
    /\ response = NoResponse
    /\ pc = "idle"
    /\ call = NoCall
    /\ history_file \in LoadStores
    /\ disk \in [DiskNames -> {"absent", "complete"}]
    /\ second = FALSE
    /\ node = NoNode

\* load_lora(), lines 192-219, as one step
LoadLora(model, clip, lora_slug, lora_name, strengths, r, content_disposition, get) ==
    /\ pc = "idle"
    /\ LET l == load_lora(model, clip, lora_slug, lora_name, strengths[1],
                          strengths[2], history_file, disk, r,
                          content_disposition, get)
       IN /\ node' = [lora_loader |-> TRUE, model |-> model, clip |-> clip,
                      lora_slug |-> lora_slug, lora_name |-> lora_name,
                      strength_model |-> strengths[1],
                      strength_clip |-> strengths[2], out |-> l.out,
                      value |-> l.value, loads |-> l.loads]
          /\ self' = l.self
          /\ req_version' = l.req_version
          /\ response' = IF l.requested THEN r ELSE NoResponse
          /\ call' = l.call
          /\ history_file' = l.history_file
          /\ disk' = l.disk
    /\ pc' = "loaded"
    /\ UNCHANGED second

NextLoad ==
    \E model \in Models, clip \in Clips, lora_slug \in Slugs,
       lora_name \in LoraNames, strengths \in StrengthPairs,
       r \in FetchResponses, content_disposition \in BOOLEAN, get \in GetReplies :
          LoadLora(model, clip, lora_slug, lora_name, strengths, r,
                   content_disposition, get)

SpecLoad == InitLoad /\ [][NextLoad]_vars

----------------------------------------------------------------------------
(* Resolution: claims C3, C4, C9, C10 (checked under SpecResolve) *)

Resolved200 ==
    /\ pc \in {"resolved", "aborted"}
    /\ response.status_code = 200

MaxId(vs) == CHOOSE m \in {vs[i].id : i \in 1..Len(vs)} :
                \A i \in 1..Len(vs) : vs[i].id <= m

Perms(n) == {f \in [1..n -> 1..n] : \A i, j \in 1..n : f[i] = f[j] => i = j}
Permuted(vs, f) == [i \in 1..Len(vs) |-> vs[f[i]]]

\* what details() leaves for the same request when the catalog lists the
\* versions in another order
Reordered(f) ==
    details(init_object(self.model_id, req_version),
            [response EXCEPT !.modelVersions = Permuted(response.modelVersions, f)])

SameResolution(f) ==
    /\ ~Reordered(f).raised
    /\ Reordered(f).file = call.file
    /\ Reordered(f).self = self

LatestCase ==
    /\ pc = "resolved"
    /\ response.status_code = 200
    /\ response.type = "LORA"
    /\ req_version = NoVersion

\* C3 as claimed: with no version_id, resolution on a LORA record selects the
\* version with the maximum id and takes its file at index 0 (no file when it
\* has none), and every permutation of modelVersions selects the same file.
C3_AsClaimed ==
    LatestCase =>
        LET vs == response.modelVersions
        IN /\ self.version = MaxId(vs)
           /\ \E i \in 1..Len(vs) :
                 /\ vs[i].id = MaxId(vs)
                 /\ vs[i].files # << >> => call.file = vs[i].files[1]
                 /\ vs[i].files = << >> => call.file = NoDetails
           /\ \A f \in Perms(Len(vs)) : SameResolution(f)

\* C3 amended: with no version_id, resolution on a LORA record with a
\* non-empty modelVersions list selects the first version in list order that
\* carries the maximum id; when that version has files it takes the file at
\* index 0 (name and downloadUrl), otherwise it selects no file; every
\* permutation of modelVersions selects the same file whenever exactly one
\* version carries the maximum id.
C3_LatestFirstFile ==
    LatestCase =>
        LET vs == response.modelVersions
            top == {i \in 1..Len(vs) : vs[i].id = MaxId(vs)}
            k == CHOOSE i \in top : \A j \in top : i <= j
        IN /\ self.version = vs[k].id
           /\ vs[k].files # << >> =>
                 /\ call.file = vs[k].files[1]
                 /\ self.name = vs[k].files[1].name
                 /\ self.download_url = vs[k].files[1].downloadUrl
           /\ vs[k].files = << >> =>
                 /\ call.file = NoDetails
                 /\ self.name = NoName
                 /\ self.download_url = NoUrl
           /\ Cardinality(top) = 1 => \A f \in Perms(Len(vs)) : SameResolution(f)

\* C3 witness: the maximum id is carried by the second of two versions, each
\* with its own file.
C3_Witness ==
    /\ LatestCase
    /\ Len(response.modelVersions) = 2
    /\ response.modelVersions[1].id < response.modelVersions[2].id
    /\ response.modelVersions[1].files # << >>
    /\ call.file # NoDetails
    /\ call.file # response.modelVersions[1].files[1]

RECURSIVE Flat(_, _)
Flat(vs, i) == IF i > Len(vs) THEN << >> ELSE vs[i].files \o Flat(vs, i + 1)

PresentCase ==
    /\ Resolved200
    /\ response.type = "LORA"
    /\ req_version # NoVersion

CatalogMatches ==
    {i \in 1..Len(Flat(response.modelVersions, 1)) :
        Flat(response.modelVersions, 1)[i].id = req_version}

\* C4: with a version_id, resolution on a LORA record raises the
\* version-not-found error when no file of any version has that id, and
\* otherwise returns the name and downloadUrl of the first matching file in
\* catalog order (versions in list order, then files in list order).
C4_FirstMatchOrNotFound ==
    PresentCase =>
        IF CatalogMatches = {}
        THEN pc = "aborted" /\ call.err = "VersionNotFound"
        ELSE LET k == CHOOSE i \in CatalogMatches : \A j \in CatalogMatches : i <= j
                 file == Flat(response.modelVersions, 1)[k]
             IN /\ pc = "resolved"
                /\ call.file = file
                /\ self.name = file.name
                /\ self.download_url = file.downloadUrl

\* C4 witness: two files of different versions carry the requested id under
\* different names, and resolution completed.
C4_Witness ==
    /\ PresentCase
    /\ pc = "resolved"
    /\ Len(response.modelVersions) = 2
    /\ \E i, j \in CatalogMatches :
          Flat(response.modelVersions, 1)[i].name # Flat(response.modelVersions, 1)[j].name
    /\ response.modelVersions[1].files # << >>
    /\ response.modelVersions[2].files # << >>

\* C9: on every catalog response whose status is not 200, resolution raises
\* and never completes normally.
C9_NonSuccessRaises ==
    (pc \in {"resolved", "aborted"} /\ response.status_code # 200) => pc = "aborted"

\* C10: on every catalog record whose type is not LORA, resolution raises the
\* invalid-model-type error, whatever the version_id and the versions and
\* files of the record, and name and download URL stay unset.
C10_InvalidTypeRaises ==
    (Resolved200 /\ response.type # "LORA") =>
        /\ pc = "aborted"
        /\ call.err = "InvalidModelType"
        /\ call.file = NoDetails
        /\ self.name = NoName
        /\ self.download_url = NoUrl

\* C10 witness: a record of another type that lists a file with the requested
\* id was rejected.
C10_Witness ==
    /\ Resolved200
    /\ response.type # "LORA"
    /\ req_version # NoVersion
    /\ CatalogMatches # {}
    /\ pc = "aborted"

----------------------------------------------------------------------------
(* The fetch pipeline: claims C1, C2, C5, C6, C7, C8 (checked under Spec) *)

\* the list stored under a model id, empty when the store or the key is missing
Entries(h, model_id) ==
    IF h.exists /\ str(model_id) \in DOMAIN h.data THEN h.data[str(model_id)] ELSE << >>

\* a download() step, and one that reached the persist step
DownloadStep == pc = "resolved" /\ pc' = "done"
Persisted == pc = "done" /\ call.path \in {"exists", "downloaded"}

\* C1: a fetch repeated right after a fetch of the same (model_id, version_id)
\* that downloaded the content (same catalog record, nothing touching disk or
\* history in between) returns success without a content GET and without
\* raising, so that the two calls make one content GET in total.  Stated for
\* files the catalog lists with a name.
C1_SecondFetchShortCircuits ==
    (second /\ pc = "done" /\ call.file.name # "") =>
        /\ call.ret = "True"
        /\ call.gets = 0

\* C2: every fetch that reaches the persist step leaves, as the last entry
\* under str(model_id), the file descriptor the resolver selected for it.
C2_PersistsSelectedFile ==
    Persisted =>
        LET l == Entries(history_file, self.model_id)
        IN /\ l # << >>
           /\ call.file # NoDetails
           /\ l[Len(l)] = call.file

\* the entries under model_id that are records with the given id
StoreMatches(h, model_id, id) ==
    {i \in 1..Len(Entries(h, model_id)) :
        /\ Entries(h, model_id)[i] # NoDetails
        /\ Entries(h, model_id)[i].id = id}

\* the store is a mapping from model-id keys to non-empty lists of entries
StoreShape(h, entries) ==
    /\ h.exists
    /\ DOMAIN h.data \subseteq Keys
    /\ \A k \in DOMAIN h.data :
          /\ h.data[k] # << >>
          /\ \A i \in 1..Len(h.data[k]) : h.data[k][i] \in entries

\* a fetch has just appended the descriptor self.file_details
AppendedDescriptor == Persisted /\ self.file_details # NoDetails

C6_FailedGetLeavesHistory ==
    [][(DownloadStep /\ call'.gets = 1 /\ call'.status # 200) =>
          /\ call'.ret = "False"
          /\ call'.err = ""
          /\ history_file' = history_file]_vars

\* C6 witness: a content GET was answered 404 and the call returned False.
C6_Witness ==
    /\ pc = "done"
    /\ call.gets = 1
    /\ call.status = 404
    /\ call.ret = "False"

\* C7: with no cache hit and the resolved target already on disk, download()
\* returns True, issues no content GET, leaves the disk as it was and appends
\* exactly one entry under model_id, the record of the resolved file.
C7_ExistingTargetRecorded ==
    [][(DownloadStep /\ call'.path = "exists") =>
          /\ call'.ret = "True"
          /\ call'.gets = 0
          /\ disk' = disk
          /\ call.file # NoDetails
          /\ Entries(history_file', self.model_id)
                = Append(Entries(history_file, self.model_id), call.file)]_vars

\* the record lookup_cached_name answers from: the first entry under model_id
\* that is a record with id version_id (NoDetails when there is none)
CachedRecord(h, model_id, version_id) ==
    LET hits == IF version_id = NoVersion THEN {}
                ELSE StoreMatches(h, model_id, version_id)
    IN IF hits = {} THEN NoDetails
       ELSE Entries(h, model_id)[CHOOSE i \in hits : \A j \in hits : i <= j]

OnDisk(d, name) == name \in DiskNames /\ d[name] # "absent"

\* C8: download() short-circuits (returns True with the cached name and no
\* content GET) exactly when the history holds a record for (model_id,
\* version_id) and a file by that cached name is on disk; with a matching
\* record whose file is missing it goes on to the name probe, the disk check
\* and the download of the resolved file.
C8_HistoryTrustedWithDisk ==
    [][DownloadStep =>
          LET rec == CachedRecord(history_file, self.model_id, self.version)
              hit == rec # NoDetails /\ OnDisk(disk, rec.name)
          IN /\ (call'.path = "cache_hit") <=> hit
             /\ hit => /\ call'.ret = "True"
                       /\ call'.gets = 0
                       /\ self'.name = rec.name
                       /\ history_file' = history_file
                       /\ disk' = disk
             /\ (rec # NoDetails /\ ~hit) =>
                   call'.path \in {"head", "exists", "downloaded", "interrupted",
                                   "failed"}]_vars

\* C8 witness: the history holds a record for the fetch, its file is missing
\* from disk, and the fetch went on to a content GET.
C8_Witness ==
    /\ pc = "done"
    /\ call.path = "failed"
    /\ CachedRecord(history_file, self.model_id, self.version) # NoDetails
    /\ ~OnDisk(disk, CachedRecord(history_file, self.model_id, self.version).name)

----------------------------------------------------------------------------
(* The history store over sequences of fetches: claims C12, C13, C18 *)

IsPrefix(a, b) == Len(a) <= Len(b) /\ SubSeq(b, 1, Len(a)) = a

\* C12: the history store is append-only: over every step the list stored
\* under each model id is a prefix of the list stored after it, a download()
\* adds at most one entry, and only under its own model id.
C12_AppendOnly ==
    [][/\ \A m \in ModelIds :
             IsPrefix(Entries(history_file, m), Entries(history_file', m))
       /\ history_file.exists => history_file'.exists
       /\ DownloadStep =>
             /\ Len(Entries(history_file', self.model_id))
                   <= Len(Entries(history_file, self.model_id)) + 1
             /\ \A m \in ModelIds \ {self.model_id} :
                   Entries(history_file', m) = Entries(history_file, m)]_vars

\* C12 witness: a re-download of the same version left a duplicate of the
\* record behind the first one.
C12_Witness ==
    /\ pc = "done"
    /\ call.path = "downloaded"
    /\ self.file_details # NoDetails
    /\ Entries(history_file, self.model_id) = <<self.file_details, self.file_details>>

\* C13: in every store state that fetches produce, lookup_cached_name returns,
\* for every (model_id, version_id), the name of the first record under
\* model_id whose id is version_id, or absent when there is none; it never
\* raises.
C13_LookupFirstMatchNeverFails ==
    \A m \in ModelIds, v \in VersionIds :
        /\ ~lora_cached_name(history_file, m, v).raised
        /\ lora_cached_name(history_file, m, v).name
              = IF CachedRecord(history_file, m, v) = NoDetails THEN NoName
                ELSE CachedRecord(history_file, m, v).name

----------------------------------------------------------------------------
(* Name probe, missing descriptor, interrupted download: claims C15, C16, C17 *)

\* C15: when download() probes the name with a HEAD request, the name is set
\* (from Content-Disposition when the header is present, else from the
\* trailing path segment of the URL) and the call goes on to the disk check
\* and the content GET.
C15_ProbeSetsName ==
    (pc = "done" /\ call.heads = 1) =>
        /\ call.path \in {"exists", "downloaded", "interrupted", "failed"}
        /\ truthy(self.name)

\* C16: with no version_id, resolution on a 200 LORA record that completes
\* normally leaves the file name and the download URL set, also when the
\* version with the maximum id has no files.
C16_LatestLeavesDescriptor ==
    LatestCase =>
        /\ self.name # NoName
        /\ self.download_url # NoUrl
        /\ call.file # NoDetails

\* C17: a file left incomplete by an interrupted content download is never
\* returned as success nor given a history entry: a download() that returns
\* True, and one that persists, names a complete file.
C17_NoPartialTreatedAsDownloaded ==
    (pc = "done" /\ call.ret = "True") => disk[self.name] = "complete"

----------------------------------------------------------------------------
(* The node: claims C11, C14, C19 (checked under SpecLoad) *)

LoadStep == pc = "idle" /\ pc' = "loaded"

\* C11: whenever download() returns the failure sentinel, load_lora returns
\* exactly the (model, clip) inputs it was given, unmodified, and the
\* downstream loader is never invoked for that call.
C11_SoftFailurePassThrough ==
    (pc = "loaded" /\ call.ret = "False") =>
        /\ node.out = "return"
        /\ node.value = <<node.model, node.clip>>
        /\ node.value[1] \in Models
        /\ node.value[2] \in Clips
        /\ node.loads = << >>

\* C11 witness: the content GET answered 404 and the call returned its inputs.
C11_Witness ==
    /\ pc = "loaded"
    /\ call.ret = "False"
    /\ call.gets = 1
    /\ call.status = 404
    /\ node.value = <<node.model, node.clip>>

\* the catalog was asked and resolution has one of the failures C14 lists
ResolutionFails ==
    /\ pc = "loaded"
    /\ response # NoResponse
    /\ \/ response.status_code # 200
       \/ response.type # "LORA"
       \/ req_version # NoVersion /\ CatalogMatches = {}

\* C14: whenever resolution fails (catalog non-success status, wrong model
\* type, or version not found), the operation aborts before any HEAD probe or
\* content GET is issued, the history store and disk are unchanged, and the
\* downstream loader is not invoked.
C14_ResolutionFailureAborts ==
    [][(LoadStep /\ ResolutionFails') =>
          /\ node'.out = "raise"
          /\ call'.heads = 0
          /\ call'.gets = 0
          /\ history_file' = history_file
          /\ disk' = disk
          /\ node'.loads = << >>]_vars

\* C19: when load_lora is called with a lora_name other than 'none', no
\* catalog request, HEAD probe or content GET is made, no CivitAI_Model is
\* built from the slug, the history store and disk are unchanged, and the
\* downstream loader is invoked exactly once with the given model, clip,
\* lora_name and the two strength values, its output being what is returned;
\* nothing of the outcome depends on the lora_slug.
C19_LocalSelectionBypassesFetch ==
    [][(LoadStep /\ node'.lora_name # "none") =>
          /\ response' = NoResponse
          /\ self' = NoObject
          /\ call' = NoCall
          /\ history_file' = history_file
          /\ disk' = disk
          /\ node'.loads = <<LoaderCall(node'.model, node'.clip, node'.lora_name,
                                        node'.strength_model, node'.strength_clip)>>
          /\ node'.out = "return"
          /\ node'.value = LoaderOutput(node'.loads[1])]_vars

\* C19 witness: a local file was selected while the slug was left at its
\* default text, which is no model id, and the loader was invoked once.
C19_Witness ==
    /\ pc = "loaded"
    /\ node.lora_name = "a"
    /\ node.lora_slug = <<"{model_id}", "{model_version}">>
    /\ Len(node.loads) = 1
    /\ node.out = "return"

====
